---- MODULE Spec2Model ----
(***************************************************************************)
(* A model of bionic.py: the text transform convert_to_bionic_str, the     *)
(* tree transform convert_to_bionic and the session cache of main.         *)
(*                                                                         *)
(* A Python str is a sequence of characters; a character is a one-element  *)
(* TLA+ string.  "en" and "em" stand for U+2013 and U+2014.                *)
(***************************************************************************)
EXTENDS Integers, Sequences, FiniteSets, TLC

VARIABLES
    s,              \* convert_to_bionic_str: the argument s
    out,            \* convert_to_bionic_str: the nodes appended to new_parent
    pc,             \* "start" before the call, "done" after it
    tree,           \* convert_to_bionic: the soup
    orig,           \* the soup as parsed, before the loop of line 95
    cur,            \* position of the generator soup.descendants
    eager,          \* which generator the installed bs4 has (line 9)
    log,            \* the replace_with calls of line 102, in order
    npass,          \* 1: first call of convert_to_bionic, 2: call on its output
    session_state,  \* main: st.session_state
    uploaded,       \* main: the value of st.file_uploader
    shown           \* main: what st.download_button was given in the last run

vars == <<s, out, pc, tree, orig, cur, eager, log, npass,
          session_state, uploaded, shown>>

strVars  == <<s, out, pc>>
treeVars == <<tree, orig, cur, eager, log, npass>>
mainVars == <<session_state, uploaded, shown>>

---------------------------------------------------------------------------
(* Bounds *)

MaxLen   == 5     \* strings over Alphabet up to this length
MaxRun   == 6     \* two runs of letters, each up to this length
MaxAlnum == 40    \* single words up to this many letters
MaxKids  == 2     \* children of a paragraph of the parsed document
MaxTop   == 2     \* top-level nodes of the parsed document

---------------------------------------------------------------------------
(* Characters *)

Whitespace == {" ", "\n"}
Dashes     == {"-", "en", "em"}
Alnum      == {"a", "b", "c", "d", "e", "h", "i", "l", "o", "p", "r", "s", "t",
               "w", "y", "1"}

isalnum(c) == c \in Alnum

isspace(str) == Len(str) > 0 /\ \A i \in 1..Len(str) : str[i] \in Whitespace

\* str.strip()
RECURSIVE lstrip(_)
lstrip(str) ==
    IF Len(str) > 0 /\ Head(str) \in Whitespace THEN lstrip(Tail(str)) ELSE str

RECURSIVE rstrip(_)
rstrip(str) ==
    IF Len(str) > 0 /\ str[Len(str)] \in Whitespace
    THEN rstrip(SubSeq(str, 1, Len(str) - 1)) ELSE str

strip(str) == rstrip(lstrip(str))

Max(a, b) == IF a >= b THEN a ELSE b

RECURSIVE Rep(_, _)
Rep(c, n) == IF n = 0 THEN <<>> ELSE <<c>> \o Rep(c, n - 1)

RECURSIVE Concat(_)
Concat(strs) == IF strs = <<>> THEN <<>> ELSE Head(strs) \o Concat(Tail(strs))

---------------------------------------------------------------------------
(* re.split with one capturing group that matches a maximal run of the     *)
(* characters in D: the pieces between the runs (empty ones included) and  *)
(* the runs themselves, alternating.                                       *)

RECURSIVE RunEnd(_, _, _)
RunEnd(str, i, D) ==
    IF i < Len(str) /\ str[i + 1] \in D THEN RunEnd(str, i + 1, D) ELSE i

RECURSIVE re_split_from(_, _, _, _)
re_split_from(str, i, piece, D) ==
    IF i > Len(str) THEN <<piece>>
    ELSE IF str[i] \in D
         THEN LET j == RunEnd(str, i, D)
              IN  <<piece, SubSeq(str, i, j)>> \o re_split_from(str, j + 1, <<>>, D)
         ELSE re_split_from(str, i + 1, Append(piece, str[i]), D)

re_split(str, D) == re_split_from(str, 1, <<>>, D)

\* re.fullmatch(r'[-–—]+', subchunk)
fullmatch_dashes(str) == Len(str) > 0 /\ \A i \in 1..Len(str) : str[i] \in Dashes

---------------------------------------------------------------------------
(* alpha_count * 0.4 in IEEE-754 binary64, then int().                     *)
(* 0.4 is the double Mantissa04 * 2^-54; the product with the integer      *)
(* alpha_count is computed exactly in limbs of 18 bits, rounded to 53      *)
(* significant bits (ties to even), and truncated.                         *)

Base == 2 ^ 18

Mantissa04 == <<104858, 157286, 104857>>    \* 7205759403792794, low limb first

RECURSIVE BitLen(_)
BitLen(x) == IF x = 0 THEN 0 ELSE 1 + BitLen(x \div 2)

\* the exact product n * limbs, one limb longer
RECURSIVE mul_limbs(_, _, _)
mul_limbs(n, limbs, carry) ==
    IF limbs = <<>> THEN <<carry>>
    ELSE <<(n * Head(limbs) + carry) % Base>>
         \o mul_limbs(n, Tail(limbs), (n * Head(limbs) + carry) \div Base)

\* the number of significant bits
RECURSIVE bit_length(_)
bit_length(limbs) ==
    IF limbs = <<>> THEN 0
    ELSE IF bit_length(Tail(limbs)) > 0 THEN 18 + bit_length(Tail(limbs))
    ELSE BitLen(Head(limbs))

RECURSIVE carry_limbs(_, _)
carry_limbs(limbs, carry) ==
    IF Len(limbs) = 1 THEN <<Head(limbs) + carry>>
    ELSE <<(Head(limbs) + carry) % Base>>
         \o carry_limbs(Tail(limbs), (Head(limbs) + carry) \div Base)

\* round to nearest, ties to even: r is the part dropped, q the part kept
round_up(r, q, unit) == unit > 1 /\ (2 * r > unit \/ (2 * r = unit /\ q % 2 = 1))

round_limb(low, unit) ==
    ((low \div unit) + (IF round_up(low % unit, low \div unit, unit) THEN 1 ELSE 0)) * unit

\* round to a multiple of unit (a power of two below Base)
round_to(limbs, unit) ==
    carry_limbs([limbs EXCEPT ![1] = round_limb(@, unit)], 0)

round53(limbs) == round_to(limbs, 2 ^ Max(0, bit_length(limbs) - 53))

\* n * 0.4 as a double, held as the limbs of its value times 2^54
times_04(n) == round53(mul_limbs(n, Mantissa04, 0))

\* int(x) of a double x >= 0 held as limbs of x * 2^54
int_of(x) == x[4]

---------------------------------------------------------------------------
(* convert_to_bionic_str *)

alpha_count(subchunk) ==
    Cardinality({i \in 1..Len(subchunk) : isalnum(subchunk[i])})

\* round() where the code truncates
bold_count_rounded(n) ==
    IF n <= 3 THEN 1
    ELSE IF n = 4 THEN 2
    ELSE Max(1, (4 * n + 5) \div 10)

\* every letter of a short word
bold_count_short(n) ==
    IF n <= 3 THEN n
    ELSE IF n = 4 THEN 2
    ELSE Max(1, int_of(times_04(n)))

bold_count(n) ==
    IF n <= 3 THEN 1
    ELSE IF n = 4 THEN 2
    ELSE Max(1, int_of(times_04(n)))

\* The for loop of line 73: the index i (from 0) at which it breaks, or
\* NoCut when it runs to its end and the else branch of line 84 is taken.
NoCut == -1

\* >= where the code has >
RECURSIVE scan_ge(_, _, _, _)
scan_ge(subchunk, i, bold_chars, k) ==
    IF i >= Len(subchunk) THEN NoCut
    ELSE IF isalnum(subchunk[i + 1])
         THEN IF bold_chars + 1 >= k THEN i
              ELSE scan_ge(subchunk, i + 1, bold_chars + 1, k)
         ELSE scan_ge(subchunk, i + 1, bold_chars, k)

RECURSIVE scan(_, _, _, _)
scan(subchunk, i, bold_chars, k) ==
    IF i >= Len(subchunk) THEN NoCut
    ELSE IF isalnum(subchunk[i + 1])
         THEN IF bold_chars + 1 > k THEN i
              ELSE scan(subchunk, i + 1, bold_chars + 1, k)
         ELSE scan(subchunk, i + 1, bold_chars, k)

\* One node appended to new_parent: its text, whether it is inside a <b>,
\* the line that appended it, and the token, alpha_count and bold_count it
\* was made from (0 where the code computes none).
Node(text, bold, line, tok, n, k) ==
    [text |-> text, bold |-> bold, line |-> line, tok |-> tok,
     alpha_count |-> n, bold_count |-> k]

emit_subchunk(subchunk) ==
    IF subchunk = <<>> THEN <<>>
    ELSE IF fullmatch_dashes(subchunk)
         THEN <<Node(subchunk, FALSE, 53, subchunk, 0, 0)>>
    ELSE LET n == alpha_count(subchunk) IN
         IF n = 0 THEN <<Node(subchunk, FALSE, 61, subchunk, 0, 0)>>
         ELSE LET k == bold_count(n)
                  i == scan(subchunk, 0, 0, k)
              IN  IF i # NoCut
                  THEN <<Node(SubSeq(subchunk, 1, i), TRUE, 80, subchunk, n, k),
                         Node(SubSeq(subchunk, i + 1, Len(subchunk)), FALSE, 82,
                              subchunk, n, k)>>
                  ELSE <<Node(subchunk, TRUE, 89, subchunk, n, k)>>

RECURSIVE emit_subchunks(_)
emit_subchunks(subchunks) ==
    IF subchunks = <<>> THEN <<>>
    ELSE emit_subchunk(Head(subchunks)) \o emit_subchunks(Tail(subchunks))

\* only the ASCII hyphen splits
dash_split_ascii(chunk) == re_split(chunk, {"-"})

dash_split(chunk) == re_split(chunk, Dashes)

\* a split that does not keep the whitespace it splits on
emit_chunk_nospace(chunk) ==
    IF chunk = <<>> \/ isspace(chunk) THEN <<>>
    ELSE emit_subchunks(dash_split(chunk))

emit_chunk(chunk) ==
    IF chunk = <<>> THEN <<>>
    ELSE IF isspace(chunk) THEN <<Node(chunk, FALSE, 40, chunk, 0, 0)>>
    ELSE emit_subchunks(dash_split(chunk))

RECURSIVE emit_chunks(_)
emit_chunks(chunks) ==
    IF chunks = <<>> THEN <<>>
    ELSE emit_chunk(Head(chunks)) \o emit_chunks(Tail(chunks))

\* The children of the span that convert_to_bionic_str(soup, str) returns.
convert_to_bionic_str(str) == emit_chunks(re_split(str, Whitespace))

---------------------------------------------------------------------------
(* The text transform applied to one string *)

Alphabet == {"a", "'", "-", "en", " "}

Strings == UNION {[1..k -> Alphabet] : k \in 0..MaxLen}

Seps == {<<>>, <<"'">>, <<".">>, <<"-">>, <<"en", "em">>, <<" ">>, <<"\n", " ">>}

TwoRuns == {Rep("a", i) \o sep \o Rep("1", j) :
                i \in 0..MaxRun, j \in 0..MaxRun, sep \in Seps}

LongWords == {Rep("a", n) : n \in 0..MaxAlnum}

wordy_phrase == <<"w", "o", "r", "d", "y", "-", "p", "h", "r", "a", "s", "e">>
its          == <<"i", "t", "'", "s">>

table_example == Rep("a", 5) \o <<" ">> \o Rep("a", 10) \o <<"-">> \o Rep("a", 11)

Examples == {wordy_phrase, its, table_example, <<"c", "a", "t">>, <<"h", "e", "l", "l", "o">>,
             <<".", ".", ".">>, <<"a", " ", "b">>}

Inputs == Strings \cup TwoRuns \cup LongWords \cup Examples

NoTree == [name |-> "none", text |-> <<>>, kids |-> <<>>]
NoCur  == [at |-> "none", path |-> <<>>]

StrInit ==
    /\ s \in Inputs
    /\ out = <<>>
    /\ pc = "start"

ConvertStr ==
    /\ pc = "start"
    /\ out' = convert_to_bionic_str(s)
    /\ pc' = "done"
    /\ UNCHANGED s


---------------------------------------------------------------------------
(* The parse tree.  A node is a NavigableString (name "#text") or a Tag.   *)
(* A node is addressed by its path, the child indexes from the soup down;  *)
(* replace_with puts the new node at the index of the old one, so the path *)
(* of a node that stays in the tree never changes.                         *)

Str(text)       == [name |-> "#text", text |-> text, kids |-> <<>>]
Tag(name, kids) == [name |-> name, text |-> <<>>, kids |-> kids]

IsString(node) == node.name = "#text"
IsTag(node)    == node.name # "#text"

\* soup.new_tag("span") with the nodes appended to it.
new_parent(str) ==
    LET nodes == convert_to_bionic_str(str)
    IN  Tag("span", [m \in 1..Len(nodes) |->
                        IF nodes[m].bold THEN Tag("b", <<Str(nodes[m].text)>>)
                        ELSE Str(nodes[m].text)])

RECURSIVE NodeAt(_, _)
NodeAt(t, path) ==
    IF path = <<>> THEN t ELSE NodeAt(t.kids[Head(path)], Tail(path))

RECURSIVE ReplaceAt(_, _, _)
ReplaceAt(t, path, new) ==
    IF path = <<>> THEN new
    ELSE [t EXCEPT !.kids[Head(path)] = ReplaceAt(@, Tail(path), new)]

Front(path) == SubSeq(path, 1, Len(path) - 1)
Last(path)  == path[Len(path)]

None == <<0>>

\* node.next_element of a node in the tree: the next node in document order.
RECURSIVE next_after(_, _)
next_after(t, path) ==
    IF path = <<>> THEN None
    ELSE IF Last(path) < Len(NodeAt(t, Front(path)).kids)
         THEN Append(Front(path), Last(path) + 1)
         ELSE next_after(t, Front(path))

next_element(t, path) ==
    IF NodeAt(t, path).kids # <<>> THEN Append(path, 1) ELSE next_after(t, path)

\* no test of line 101
qualifies_any(child) == IsString(child)

\* line 100-101: the child is a string with something besides whitespace
qualifies(child) == IsString(child) /\ Len(strip(child.text)) > 0

\* the strings at any depth under the paragraph are replaced
RECURSIVE replace_children_deep(_)
replace_children_deep(e) ==
    [e EXCEPT !.kids = [i \in 1..Len(e.kids) |->
        IF qualifies(e.kids[i]) THEN new_parent(e.kids[i].text)
        ELSE IF IsTag(e.kids[i]) THEN replace_children_deep(e.kids[i])
        ELSE e.kids[i]]]

\* lines 98-102 for one paragraph e: each qualifying child of the snapshot is
\* replaced, at its index, by the span made from its text.
replace_children(e) ==
    [e EXCEPT !.kids = [i \in 1..Len(e.kids) |->
        IF qualifies(e.kids[i]) THEN new_parent(e.kids[i].text) ELSE e.kids[i]]]

\* the replace_with calls that replace_children(e) makes, in order
replace_calls(e, path) ==
    LET idx == [i \in 1..Len(e.kids) |-> i]
        Q(i) == qualifies(e.kids[i])
        sel == SelectSeq(idx, Q)
    IN  [m \in 1..Len(sel) |->
            [path |-> Append(path, sel[m]), text |-> e.kids[sel[m]].text]]

\* The generator soup.descendants starts at soup.contents[0].
descendants(t) ==
    IF t.kids = <<>> THEN [at |-> "none", path |-> <<>>]
    ELSE [at |-> "node", path |-> <<1>>]

---------------------------------------------------------------------------
(* str(soup) and BeautifulSoup(content, 'html.parser').  The markup is a   *)
(* sequence of start tags, end tags and characters; the parser joins the   *)
(* characters between two tags into one string, and a string of ASCII      *)
(* whitespace only becomes a single newline or space.                      *)

RECURSIVE serialize(_)
RECURSIVE serialize_all(_)
serialize(node) ==
    IF IsString(node) THEN [i \in 1..Len(node.text) |-> [k |-> "char", v |-> node.text[i]]]
    ELSE <<[k |-> "open", v |-> node.name]>> \o serialize_all(node.kids)
         \o <<[k |-> "close", v |-> node.name]>>
serialize_all(nodes) ==
    IF nodes = <<>> THEN <<>> ELSE serialize(Head(nodes)) \o serialize_all(Tail(nodes))

end_data(str) ==
    IF isspace(str)
    THEN IF \E i \in 1..Len(str) : str[i] = "\n" THEN <<"\n">> ELSE <<" ">>
    ELSE str

RECURSIVE CharsEnd(_, _)
CharsEnd(toks, i) ==
    IF i < Len(toks) /\ toks[i + 1].k = "char" THEN CharsEnd(toks, i + 1) ELSE i

RECURSIVE parse_from(_, _)
parse_from(toks, i) ==
    IF i > Len(toks) \/ toks[i].k = "close" THEN [kids |-> <<>>, next |-> i]
    ELSE IF toks[i].k = "char"
    THEN LET j    == CharsEnd(toks, i)
             str  == [m \in 1..(j - i + 1) |-> toks[i + m - 1].v]
             rest == parse_from(toks, j + 1)
         IN  [kids |-> <<Str(end_data(str))>> \o rest.kids, next |-> rest.next]
    ELSE LET inner == parse_from(toks, i + 1)
             rest  == parse_from(toks, inner.next + 1)
         IN  [kids |-> <<Tag(toks[i].v, inner.kids)>> \o rest.kids,
              next |-> rest.next]

BeautifulSoup(content) == Tag("[document]", parse_from(content, 1).kids)

str_soup(t) == serialize_all(t.kids)

---------------------------------------------------------------------------
(* The documents *)

ab == <<"a", "b">>
sp == <<" ">>
lead == <<" ", "a">>

Inline == {Str(ab), Str(sp), Tag("i", <<Str(ab)>>), Tag("p", <<Str(lead)>>)}

NoAdjacentStrings(nodes) ==
    \A i \in 1..(Len(nodes) - 1) : ~(IsString(nodes[i]) /\ IsString(nodes[i + 1]))

SeqsUpTo(S, n) == UNION {[1..k -> S] : k \in 0..n}

KidSeqs == {ks \in SeqsUpTo(Inline, MaxKids) : NoAdjacentStrings(ks)}

Blocks == {Tag("p", ks) : ks \in KidSeqs}
          \cup {Str(ab), Tag("div", <<Str(ab)>>), Tag("div", <<Tag("p", <<Str(ab)>>)>>)}

Documents == {Tag("[document]", bs) :
                 bs \in {x \in SeqsUpTo(Blocks, MaxTop) : NoAdjacentStrings(x)}}

TreeInit ==
    /\ tree \in Documents
    /\ orig = tree
    /\ cur = descendants(tree)
    /\ eager \in BOOLEAN
    /\ log = <<>>
    /\ npass = 1

\* One iteration of the loop of line 95.  bs4 before 4.13 reads
\* current.next_element when the generator is resumed, after the body has
\* run; bs4 4.13 and later reads it before it yields.  A string that
\* replace_with has extracted has next_element None.
Visit ==
    /\ cur.at # "none"
    /\ LET e     == IF cur.at = "node" THEN NodeAt(tree, cur.path) ELSE Str(<<>>)
           isP   == cur.at = "node" /\ IsTag(e) /\ e.name = "p"
           before == IF cur.at = "node" THEN next_element(tree, cur.path) ELSE None
           tree2 == IF isP THEN ReplaceAt(tree, cur.path, replace_children(e))
                    ELSE tree
           calls == IF isP THEN replace_calls(e, cur.path) ELSE <<>>
           after == IF cur.at = "node" THEN next_element(tree2, cur.path) ELSE None
           succ  == IF eager THEN before ELSE after
           extracted == eager /\ \E m \in 1..Len(calls) : calls[m].path = succ
       IN  /\ tree' = tree2
           /\ log' = log \o calls
           /\ cur' = IF succ = None THEN [at |-> "none", path |-> <<>>]
                     ELSE IF extracted THEN [at |-> "extracted", path |-> succ]
                     ELSE [at |-> "node", path |-> succ]
    /\ UNCHANGED <<orig, eager, npass>>

\* convert_to_bionic has returned str(soup); it is called on that markup.
SecondCall ==
    /\ npass = 1
    /\ cur.at = "none"
    /\ tree' = BeautifulSoup(str_soup(tree))
    /\ orig' = tree'
    /\ cur' = descendants(tree')
    /\ log' = <<>>
    /\ npass' = 2
    /\ UNCHANGED eager


---------------------------------------------------------------------------
(* main: one run of the script for each interaction with the page *)

Absent == "absent"

Names    == {"a.epub", "b.epub", "c.epub", "d.epub"}
Contents == {"book1", "book2", "book3", "book4", "notepub"}

Files  == [name : Names, content : Contents]
NoFile == [name |-> Absent, content |-> Absent]

Nothing == [data |-> Absent, file_name |-> Absent]

\* st.session_state.clear()
Cleared ==
    [original_name |-> Absent, converted_data |-> Absent, converted_name |-> Absent]

\* epub.read_epub raises on a file that is not an EPUB
Readable(content) == content # "notepub"

\* _convert_file_path and Path(converted_path).name
_convert_file_path(original_name) == <<"Bionic_", original_name>>

\* convert_book: the bytes of the converted book and the name of its file
convert_book(content, original_name) ==
    [data |-> <<"bionic", content>>, name |-> _convert_file_path(original_name)]

\* lines 128-156 with the uploaded file f
main(f) ==
    LET original_name == f.name
        different == session_state.original_name = Absent
                     \/ session_state.original_name # original_name
        st1 == IF different THEN Cleared ELSE session_state
        convert == st1.converted_data = Absent
        c   == convert_book(f.content, original_name)
        st2 == IF convert
               THEN [st1 EXCEPT !.converted_data = c.data, !.converted_name = c.name]
               ELSE st1
    IN  IF convert /\ ~Readable(f.content)
        THEN \* the exception of read_epub ends the run at line 142
             /\ session_state' = st1
             /\ shown' = Nothing
        ELSE /\ shown' = [data |-> st2.converted_data, file_name |-> st2.converted_name]
             /\ session_state' = [st2 EXCEPT !.original_name = original_name]

MainInit ==
    /\ session_state = Cleared
    /\ uploaded = NoFile
    /\ shown = Nothing

\* The user uploads a file: the script runs with it.
Upload ==
    \E f \in Files :
        /\ uploaded' = f
        /\ main(f)

\* The user removes the file: the script runs, book_path is None.
Remove ==
    /\ uploaded # NoFile
    /\ uploaded' = NoFile
    /\ shown' = Nothing
    /\ UNCHANGED session_state

\* Any other interaction (the download button): the script runs again.
Rerun ==
    /\ uploaded # NoFile
    /\ main(uploaded)
    /\ UNCHANGED uploaded

---------------------------------------------------------------------------
(* Specifications *)

NoStr  == /\ s = <<>> /\ out = <<>> /\ pc = "none"
NoSoup == /\ tree = NoTree /\ orig = NoTree /\ cur = NoCur /\ eager = FALSE
          /\ log = <<>> /\ npass = 0
NoMain == MainInit

Init == StrInit /\ NoSoup /\ NoMain

Next == ConvertStr /\ UNCHANGED <<treeVars, mainVars>>

Spec == Init /\ [][Next]_vars

InitTree == TreeInit /\ NoStr /\ NoMain

NextTree ==
    \/ Visit /\ UNCHANGED <<strVars, mainVars>>
    \/ SecondCall /\ UNCHANGED <<strVars, mainVars>>

SpecTree == InitTree /\ [][NextTree]_vars

InitMain == MainInit /\ NoStr /\ NoSoup

NextMain ==
    \/ Upload /\ UNCHANGED <<strVars, treeVars>>
    \/ Remove /\ UNCHANGED <<strVars, treeVars>>
    \/ Rerun /\ UNCHANGED <<strVars, treeVars>>

SpecMain == InitMain /\ [][NextMain]_vars

---------------------------------------------------------------------------
(* Properties of the text transform *)

Texts(nodes) == [m \in 1..Len(nodes) |-> nodes[m].text]

AlnumIn(str) == Cardinality({i \in 1..Len(str) : isalnum(str[i])})

\* The nodes made from content tokens with at least one alphanumeric.
Emphasized(m) == out[m].line \in {80, 82, 89}

\* C1: when convert_to_bionic_str has returned, the texts of the nodes it
\* appended, concatenated in order, are the input string s exactly.
ContentPreserved == pc = "done" => Concat(Texts(out)) = s

ContentPreservedWitness ==
    /\ pc = "done"
    /\ Len(s) = MaxLen /\ s[1] = " " /\ s[Len(s)] = " "
    /\ \E m \in 1..Len(out) : out[m].line = 53
    /\ \E m \in 1..Len(out) : out[m].line = 61
    /\ \E m \in 1..Len(out) : out[m].bold
    /\ Concat(Texts(out)) = s

\* The table of the emphasis length rule.
RuleTable(n) ==
    IF n = 0 THEN 0
    ELSE IF n <= 3 THEN 1
    ELSE IF n = 4 THEN 2
    ELSE Max(1, (2 * n) \div 5)

\* C2: a token with no alphanumeric gets no bold node; for a token with n >= 1
\* alphanumerics the bold count computed is 1 for n <= 3, 2 for n = 4 and
\* max(1, floor(2n/5)) for n >= 5.
EmphasisLengthRule ==
    pc = "done" =>
        \A m \in 1..Len(out) :
            /\ out[m].line \in {53, 61} =>
                    ~out[m].bold /\ out[m].text = out[m].tok
            /\ out[m].line = 61 => AlnumIn(out[m].tok) = RuleTable(0)
            /\ Emphasized(m) =>
                    /\ out[m].alpha_count = AlnumIn(out[m].tok)
                    /\ out[m].alpha_count >= 1
                    /\ out[m].bold_count = RuleTable(out[m].alpha_count)

EmphasisLengthRuleWitness ==
    /\ pc = "done"
    /\ \E m \in 1..Len(out) : out[m].alpha_count = 5 /\ out[m].bold_count = 2
    /\ \E m \in 1..Len(out) : out[m].alpha_count = 10 /\ out[m].bold_count = 4
    /\ \E m \in 1..Len(out) : out[m].alpha_count = 11 /\ out[m].bold_count = 4

\* The maximal runs of dash characters of str, as pairs <<first, last>>.
DashRuns(str) ==
    {r \in (1..Len(str)) \X (1..Len(str)) :
        /\ r[1] <= r[2]
        /\ \A i \in r[1]..r[2] : str[i] \in Dashes
        /\ r[1] > 1 => str[r[1] - 1] \notin Dashes
        /\ r[2] < Len(str) => str[r[2] + 1] \notin Dashes}

RECURSIVE Offset(_, _)
Offset(nodes, m) ==
    IF m = 1 THEN 0 ELSE Offset(nodes, m - 1) + Len(nodes[m - 1].text)

Runs(nodes) == [m \in 1..Len(nodes) |-> <<nodes[m].text, nodes[m].bold>>]

\* C3: every maximal run of dash characters of s is one plain node whose text
\* is the run, and the text on its two sides is emphasized as it is alone.
DashRunInvariance ==
    pc = "done" =>
        \A r \in DashRuns(s) :
            /\ \E m \in 1..Len(out) :
                    /\ Offset(out, m) = r[1] - 1
                    /\ out[m].text = SubSeq(s, r[1], r[2])
                    /\ ~out[m].bold
            /\ Runs(out) =
                    Runs(convert_to_bionic_str(SubSeq(s, 1, r[1] - 1)))
                    \o <<<<SubSeq(s, r[1], r[2]), FALSE>>>>
                    \o Runs(convert_to_bionic_str(SubSeq(s, r[2] + 1, Len(s))))

DashRunInvarianceWitness ==
    /\ pc = "done"
    /\ s = wordy_phrase
    /\ Runs(out) = << <<SubSeq(s, 1, 2), TRUE>>, <<SubSeq(s, 3, 5), FALSE>>,
                      <<SubSeq(s, 6, 6), FALSE>>,
                      <<SubSeq(s, 7, 8), TRUE>>, <<SubSeq(s, 9, 12), FALSE>> >>

\* The position of the j-th alphanumeric character of tok, 0 if there is none.
NthAlnum(tok, j) ==
    LET P == {i \in 1..Len(tok) :
                 isalnum(tok[i]) /\ AlnumIn(SubSeq(tok, 1, i)) = j}
    IN  IF P = {} THEN 0 ELSE CHOOSE i \in P : TRUE

\* C7: the bold node of a content token is the prefix that ends right before
\* the (k+1)-th alphanumeric (the whole token when there is none); it is not
\* empty, holds exactly k alphanumerics, and the plain rest starts with one.
CutRule ==
    pc = "done" =>
        \A m \in 1..Len(out) :
            /\ out[m].line \in {80, 89} =>
                  LET tok == out[m].tok
                      cut == NthAlnum(tok, out[m].bold_count + 1)
                  IN  /\ out[m].bold
                      /\ out[m].text # <<>>
                      /\ AlnumIn(out[m].text) = out[m].bold_count
                      /\ cut = 0 => out[m].line = 89 /\ out[m].text = tok
                      /\ cut # 0 =>
                            /\ out[m].line = 80
                            /\ out[m].text = SubSeq(tok, 1, cut - 1)
                            /\ m < Len(out)
                            /\ out[m + 1].line = 82
                            /\ ~out[m + 1].bold
                            /\ out[m + 1].text = SubSeq(tok, cut, Len(tok))
                            /\ isalnum(out[m + 1].text[1])
            /\ out[m].line = 82 => m > 1 /\ out[m - 1].line = 80

CutRuleWitness ==
    /\ pc = "done"
    /\ s = its
    /\ Runs(out) = << <<SubSeq(s, 1, 1), TRUE>>, <<SubSeq(s, 2, 4), FALSE>> >>

\* C8 as stated: the else branch of the scan (line 89) is never taken.
FallbackNeverTaken ==
    pc = "done" => \A m \in 1..Len(out) : out[m].line # 89

\* C8, amended: a token with two or more alphanumerics has more of them than
\* its bold count and is cut by the scan; a token with exactly one has a bold
\* count of one and is bolded whole by the else branch.
FallbackOnlySingle ==
    pc = "done" =>
        \A m \in 1..Len(out) :
            Emphasized(m) =>
                /\ out[m].alpha_count >= 2 =>
                        /\ out[m].alpha_count > out[m].bold_count
                        /\ out[m].line # 89
                /\ out[m].alpha_count = 1 =>
                        /\ out[m].bold_count = 1
                        /\ out[m].line = 89
                        /\ out[m].text = out[m].tok

FallbackOnlySingleWitness ==
    /\ pc = "done"
    /\ \E m \in 1..Len(out) : out[m].line = 89 /\ Len(out[m].tok) > 1
    /\ \E m \in 1..Len(out) : out[m].line = 80 /\ out[m].alpha_count = 2

---------------------------------------------------------------------------
(* Properties of the tree transform *)

RECURSIVE PathsOf(_)
PathsOf(node) ==
    {<<>>} \cup UNION {{<<i>> \o q : q \in PathsOf(node.kids[i])} :
                          i \in 1..Len(node.kids)}

ParentIsP(t, path) == path # <<>> /\ NodeAt(t, Front(path)).name = "p"

IsParagraph(t, path) == path # <<>> /\ NodeAt(t, path).name = "p"

\* A string that is empty or whitespace only, and one that is not.
Blank(node)    == IsString(node) /\ \A i \in 1..Len(node.text) : node.text[i] \in Whitespace
Eligible(node) == IsString(node) /\ ~Blank(node)

\* The strings of t that line 102 is written to replace.
QualifyingPaths(t) ==
    {q \in PathsOf(t) : ParentIsP(t, q) /\ Eligible(NodeAt(t, q))}

HasParagraph(node) == \E q \in PathsOf(node) : NodeAt(node, q).name = "p"

Finished == cur.at = "none"

\* C4 as stated: every element that is a child of a paragraph is unchanged,
\* with everything inside it.
ElementChildrenUntouched ==
    \A q \in PathsOf(orig) :
        (IsTag(NodeAt(orig, q)) /\ ParentIsP(orig, q)) =>
            (q \in PathsOf(tree) /\ NodeAt(tree, q) = NodeAt(orig, q))

\* C4, amended: every node of the parsed document keeps its place; an element
\* keeps its name and its number of children; a string whose parent is not a
\* paragraph is unchanged; a string whose parent is a paragraph is unchanged
\* or replaced by the span made from it; an element child of a paragraph with
\* no paragraph in it is unchanged with everything inside it.
FrameOfTransform ==
    \A q \in PathsOf(orig) :
        /\ q \in PathsOf(tree)
        /\ LET o == NodeAt(orig, q)
               n == NodeAt(tree, q)
           IN  /\ IsTag(o) => IsTag(n) /\ n.name = o.name /\ Len(n.kids) = Len(o.kids)
               /\ (IsString(o) /\ ~ParentIsP(orig, q)) => n = o
               /\ (IsString(o) /\ ParentIsP(orig, q)) =>
                      \/ n = o
                      \/ Eligible(o) /\ n = new_parent(o.text)
               /\ (IsTag(o) /\ ParentIsP(orig, q) /\ ~HasParagraph(o)) => n = o

FrameOfTransformWitness ==
    /\ Finished
    /\ npass = 1
    /\ orig.kids = <<Tag("p", <<Str(ab), Tag("i", <<Str(ab)>>)>>),
                    Tag("div", <<Str(ab)>>)>>
    /\ tree.kids = <<Tag("p", <<new_parent(ab), Tag("i", <<Str(ab)>>)>>),
                    Tag("div", <<Str(ab)>>)>>

NoQualifyingChild(node) == \A i \in 1..Len(node.kids) : ~Eligible(node.kids[i])

WhitespaceKept ==
    \A q \in PathsOf(orig) :
        (Blank(NodeAt(orig, q)) /\ ParentIsP(orig, q)) =>
            /\ q \in PathsOf(tree)
            /\ NodeAt(tree, q) = NodeAt(orig, q)
            /\ \A m \in 1..Len(log) : log[m].path # q

\* C5 as stated: a whitespace-only string child of a paragraph is never
\* replaced, and a paragraph with no qualifying string child is unchanged.
WhitespaceSkipWhole ==
    /\ WhitespaceKept
    /\ \A q \in PathsOf(orig) :
          (IsParagraph(orig, q) /\ NoQualifyingChild(NodeAt(orig, q))) =>
              (q \in PathsOf(tree) /\ NodeAt(tree, q) = NodeAt(orig, q))

\* C5, amended: a whitespace-only string child of a paragraph is never
\* replaced; a paragraph with no qualifying string child keeps its strings
\* and, in their places, its elements, and it is unchanged altogether when no
\* paragraph is nested in it.
WhitespaceSkip ==
    /\ WhitespaceKept
    /\ \A q \in PathsOf(orig) :
          (IsParagraph(orig, q) /\ NoQualifyingChild(NodeAt(orig, q))) =>
              /\ q \in PathsOf(tree)
              /\ LET o == NodeAt(orig, q)
                     n == NodeAt(tree, q)
                 IN  /\ n.name = o.name
                     /\ Len(n.kids) = Len(o.kids)
                     /\ \A i \in 1..Len(o.kids) :
                           /\ IsString(o.kids[i]) => n.kids[i] = o.kids[i]
                           /\ IsTag(o.kids[i]) => n.kids[i].name = o.kids[i].name
                           /\ ~HasParagraph(o.kids[i]) => n.kids[i] = o.kids[i]

WhitespaceSkipWitness ==
    /\ Finished
    /\ npass = 1
    /\ Len(orig.kids) >= 1
    /\ orig.kids[1] = Tag("p", <<Str(sp), Tag("p", <<Str(lead)>>)>>)
    /\ tree.kids[1] = Tag("p", <<Str(sp), Tag("p", <<new_parent(lead)>>)>>)

Count(path) == Cardinality({m \in 1..Len(log) : log[m].path = path})

\* C6: when the loop over soup.descendants has ended, every string of the
\* parsed document that is a non-whitespace child of a paragraph has been
\* replaced exactly once, and nothing else has been replaced (no node that a
\* replacement created).
TraversalReplacesAll ==
    Finished =>
        /\ \A q \in QualifyingPaths(orig) : Count(q) = 1
        /\ \A m \in 1..Len(log) : log[m].path \in QualifyingPaths(orig)

\* C9: convert_to_bionic applied to the output of convert_to_bionic replaces
\* nothing and returns the document it was given.
Idempotent ==
    (npass = 2 /\ Finished) => (tree = orig /\ log = <<>>)

---------------------------------------------------------------------------
(* Properties of main *)

\* C10: whenever the download button is shown, it offers the conversion of the
\* book that is uploaded, under its converted name, and
\* session_state.original_name is the name of that book.
DownloadIsCurrentBook ==
    shown # Nothing =>
        /\ uploaded # NoFile
        /\ shown.data = convert_book(uploaded.content, uploaded.name).data
        /\ shown.file_name = convert_book(uploaded.content, uploaded.name).name
        /\ session_state.original_name = uploaded.name

====
